---- MODULE Spec2Model ----
(***************************************************************************)
(* Model of the chat-room backend: the in-memory room registry driven by   *)
(* Socket.IO events (backend/index.js), the fixed-window rate-limit store  *)
(* (backend/middleware/rateLimiter.js) and the per-device usage policy     *)
(* (backend/middleware/usageLimits.js, backend/models/Device.js).          *)
(* Time is the value of Date.now() in milliseconds.                        *)
(***************************************************************************)
EXTENDS Integers, FiniteSets, Sequences, TLC

\* ---------------------------------------------------------------- bounds
NumSockets == 2
MaxRooms == 2
StartTime == 1000
MaxCount == 7
MaxPolicyHits == 2
MaxSweepHits == 2
MaxDailyMatches == 2
NumRequests == 2
NumClients == 2

\* ------------------------------------------------------ program constants
GracePeriodMs == 5 * 60 * 1000

WindowMs == 60 * 1000
ApiMax == 10
StrictMax == 5
QueueMax == 3
CooldownSeconds == 30
DailyLimit == 5
DayMs == 24 * 60 * 60 * 1000

Sockets == 1..NumSockets
RoomIds == 1..MaxRooms
NoRoom == 0
RoomNames == {"lobby"}
\* Names sent with create-room where the default name is under study: a
\* name, or none.
RoomNameInputs == {"lobby", ""}
Nicknames == {"neo"}

\* Instants at which socket events may arrive; timers additionally fire at
\* their own due times (AdvanceToTimer), up to MaxNow.
RoomInstants == { StartTime, StartTime + 1 }
MaxNow == StartTime + GracePeriodMs

\* Requests carry the X-Device-ID header of a device, or no identifier.
DeviceIds == {"d1"}
NoDevice == "none"
ClientIp == "ip1"
Keys == DeviceIds \cup {ClientIp}
Filters == {"male", "female", "any"}
Limiters == {"api", "strict", "queue"}

\* Instants at which HTTP requests may arrive.
ApiInstants ==
    { StartTime + d : d \in {0, 1, 30000, DayMs} }
LimiterInstants ==
    { StartTime + d : d \in {0, WindowMs, WindowMs + 1, 2 * WindowMs + 2} }
PolicyInstants == { StartTime, StartTime + CooldownSeconds * 1000 }

\* The cleanup sweep: its idle threshold and its setInterval period.
OneHourMs == 60 * 60 * 1000
SweepIntervalMs == 5 * 60 * 1000
\* Instants of limiter hits and sweeps around the one-hour threshold: the
\* server start, four minutes later, and the 12th, 13th and 14th sweep.
SweepInstants ==
    { StartTime + d : d \in {0, 4 * WindowMs, 12 * SweepIntervalMs,
                             13 * SweepIntervalMs, 14 * SweepIntervalMs} }

\* Texts the classifier may reply with, as sequences of characters.
MaleText == <<"m", "a", "l", "e">>
FemaleText == <<"f", "e", "m", "a", "l", "e">>
UnknownText == <<"u", "n", "k", "n", "o", "w", "n">>
ReplyTexts ==
    { MaleText, FemaleText, UnknownText,
      <<"F", "e", "m", "a", "l", "e", "\n">>,
      <<" ", "M", "a", "l", "e">>,
      <<"m", "a", "n">> }

\* What happens to a POST /api/verify-gender in its handler: Gemini is not
\* configured, no image was sent, the classifier replies with a text, the
\* API call fails with status 429, or it fails otherwise.
Verdict(kind) == [kind |-> kind, text |-> << >>]
Reply(text) == [kind |-> "reply", text |-> text]
Verdicts ==
    { Verdict("unconfigured"), Verdict("noimage"), Reply(UnknownText),
      Reply(MaleText) }
AllVerdicts ==
    { Verdict(k) : k \in {"unconfigured", "noimage", "quota", "apierror"} }
    \cup { Reply(t) : t \in ReplyTexts }

VARIABLES
    now,            \* Date.now()
    sockStatus,     \* per socket: "fresh", "connected" or "closed"
    socketRoomId,   \* socket.roomId (NoRoom when unset / null)
    socketRooms,    \* socket.rooms: the Socket.IO rooms the socket has joined
    rooms,          \* the rooms Map: roomId -> room record
    nextRoomId,     \* source of fresh room ids
    timers,         \* pending setTimeout deletion callbacks
    lastJoinAt,     \* per room: time of the latest successful join-room (0: none)
    vacatedAt,      \* per room: time its last live connection left (0: occupied)
    lastOp,         \* the socket handler or timer callback that ran last
    emitted,        \* the events that handler emitted, with their recipients
    roomsUpdated,   \* the list of the latest io.emit('rooms-updated', ...)
    requestCounts,  \* the requestCounts Map: key -> [count, resetTime]
    devices,        \* the Device collection: device_id -> document
    lastResponse,   \* outcome of the latest HTTP request
    lastHit,        \* outcome of the latest rate-limiter hit
    windowHits,     \* per key: its running window [start, n, by]
    limiterWindows, \* per <<limiter, key>>: that limiter's own window [start, n]
    joinedOkAt,     \* per device: time of its latest successful queue join
    inflight,       \* per request slot: a POST /api/profile between its awaits
    clients         \* per browser tab: the React state of App and its screens

roomVars == <<sockStatus, socketRoomId, socketRooms, rooms, nextRoomId,
              timers, lastJoinAt, vacatedAt, lastOp, emitted, roomsUpdated>>
apiVars == <<requestCounts, devices, lastResponse, lastHit, windowHits,
             limiterWindows, joinedOkAt>>
asyncVars == <<inflight, clients>>
vars == <<now, roomVars, apiVars, asyncVars>>

Requests == 1..NumRequests
Clients == 1..NumClients
NoSocket == 0

\* ------------------------------------------------------------- helpers
Min(S) == CHOOSE x \in S : \A y \in S : x <= y

\* Live connections currently joined to room r (Socket.IO membership).
LiveMembers(r) ==
    { s \in Sockets : sockStatus[s] = "connected" /\ r \in socketRooms[s] }

\* The entries of getRoomList(): userCount is room.users.size.
UserCount(r) == Cardinality(DOMAIN rooms[r].users)
getRoomList == { [roomId |-> r, name |-> rooms[r].name,
                  userCount |-> UserCount(r),
                  createdAt |-> rooms[r].createdAt,
                  createdBy |-> rooms[r].createdBy] : r \in DOMAIN rooms }

\* Map.set / Map.delete on a function with a finite domain.
MapSet(m, k, v) == [x \in (DOMAIN m) \cup {k} |-> IF x = k THEN v ELSE m[x]]
MapDelete(m, k) == [x \in (DOMAIN m) \ {k} |-> m[x]]

\* The live-membership bookkeeping that follows a change of socketRooms.
VacatedAfter(newSockStatus, newSocketRooms) ==
    [r \in RoomIds |->
        IF LiveMembers(r) # {}
           /\ { s \in Sockets : newSockStatus[s] = "connected"
                                /\ r \in newSocketRooms[s] } = {}
        THEN now
        ELSE vacatedAt[r]]

\* ---- events (Socket.IO emit)
NoOp == [op |-> "none", socket |-> 0, roomId |-> NoRoom]

Event(name, to, roomId, userCount, message) ==
    [name |-> name, to |-> to, roomId |-> roomId, userCount |-> userCount,
     message |-> message, roomName |-> << >>, users |-> << >>]

\* nickname || 'Anonymous'
NickOrAnonymous(nickname) ==
    IF nickname = "" THEN "Anonymous" ELSE nickname

\* Array.from(room.users.values()).map(u => u.nickname || 'Anonymous'):
\* one entry per key of the users Map (listed here in socket-id order).
RECURSIVE UsersList(_)
UsersList(users) ==
    IF DOMAIN users = {} THEN << >>
    ELSE LET k == Min(DOMAIN users)
         IN  <<NickOrAnonymous(users[k])>> \o UsersList(MapDelete(users, k))

\* The room-joined snapshot sent to the joining socket.
RoomJoined(s, roomId, room) ==
    [Event("room-joined", {s}, roomId, 0, "") EXCEPT
        !.roomName = room.name,
        !.users = UsersList(room.users)]

\* io.to(roomId): every connection joined to the Socket.IO room.
IoTo(roomId, status, srooms) ==
    { x \in Sockets : status[x] = "connected" /\ roomId \in srooms[x] }

\* io.to(roomId) from the socket itself: every connection joined to the
\* Socket.IO room, the sender included.
SocketToIncludingSender(s, roomId, status, srooms) ==
    { x \in Sockets : status[x] = "connected" /\ roomId \in srooms[x] }

\* socket.to(roomId): every connection joined to the Socket.IO room except
\* the sender.
SocketTo(s, roomId, status, srooms) ==
    { x \in Sockets \ {s} : status[x] = "connected" /\ roomId \in srooms[x] }

\* io.emit('rooms-updated', list): sent to every connection.
RoomsUpdated(status, list) ==
    Event("rooms-updated", { x \in Sockets : status[x] = "connected" },
          NoRoom, Cardinality(list), "")

\* ------------------------------------------------------------ initial state
InitRooms ==
    /\ sockStatus = [s \in Sockets |-> "fresh"]
    /\ socketRoomId = [s \in Sockets |-> NoRoom]
    /\ socketRooms = [s \in Sockets |-> {}]
    /\ rooms = << >>
    /\ nextRoomId = 1
    /\ timers = {}
    /\ lastJoinAt = [r \in RoomIds |-> 0]
    /\ vacatedAt = [r \in RoomIds |-> 0]
    /\ lastOp = NoOp
    /\ emitted = {}
    /\ roomsUpdated = {}

NoResponse ==
    [route |-> "none", device |-> NoDevice, alt |-> NoDevice,
     deviceId |-> NoDevice, filter |-> "any", status |-> 0,
     by |-> "none", remaining |-> 0, sinceJoin |-> -1, countBefore |-> 0,
     ran |-> << >>, doc |-> << >>, next |-> FALSE, failed |-> {}]
NoHit ==
    [limiter |-> "none", key |-> NoDevice, totalHits |-> 0, resetTime |-> 0,
     allowed |-> TRUE]

InitApi ==
    /\ requestCounts = << >>
    /\ devices = << >>
    /\ lastResponse = NoResponse
    /\ lastHit = NoHit
    /\ windowHits = << >>
    /\ limiterWindows = << >>
    /\ joinedOkAt = [d \in DeviceIds |-> 0]

\* No request has arrived yet.
IdleRequest ==
    [pc |-> "idle", deviceId |-> NoDevice, nickname |-> "", status |-> 0]
InitAsync == inflight = [q \in Requests |-> IdleRequest]

\* Every tab shows the queue screen, whose socket effect has not run yet.
InitialClient ==
    [screen |-> "queue", socketRef |-> NoSocket, navigatingToChat |-> FALSE,
     matchSocket |-> NoSocket, leftWith |-> NoSocket]
InitClients == clients = [c \in Clients |-> InitialClient]

Init ==
    /\ now = StartTime
    /\ InitRooms
    /\ InitApi
    /\ InitAsync
    /\ InitClients

\* ------------------------------------------------------------------ clock
\* Time passes to a later instant, never past a timer that is due.
Tick(Instants) ==
    /\ \E t \in Instants :
        /\ t > now
        /\ \A tm \in timers : tm.fireAt >= t
        /\ now' = t
    /\ UNCHANGED <<roomVars, apiVars>>

\* Time passes to the due time of the earliest pending timer.
AdvanceToTimer ==
    /\ timers # {}
    /\ LET t == Min({ tm.fireAt : tm \in timers })
       IN  /\ t > now
           /\ t <= MaxNow
           /\ now' = t
    /\ UNCHANGED <<roomVars, apiVars>>

\* ------------------------------------------------------- socket lifecycle
\* io.on('connection'): a new socket with a fresh id.
Connect(s) ==
    /\ sockStatus[s] = "fresh"
    /\ sockStatus' = [sockStatus EXCEPT ![s] = "connected"]
    /\ UNCHANGED <<now, socketRoomId, socketRooms, rooms, nextRoomId,
                   timers, lastJoinAt, vacatedAt, lastOp, emitted,
                   roomsUpdated, apiVars>>

\* create-room storing the name as it was sent.
CreateRoomStoringGivenName(s, roomName, nickname) ==
    /\ sockStatus[s] = "connected"
    /\ nextRoomId <= MaxRooms
    /\ LET roomId == nextRoomId
           room == [name |-> <<roomName>>, users |-> (s :> nickname),
                    createdAt |-> now, createdBy |-> nickname,
                    emptyAt |-> 0]
       IN  /\ rooms' = MapSet(rooms, roomId, room)
           /\ socketRooms' = [socketRooms EXCEPT ![s] = @ \cup {roomId}]
           /\ socketRoomId' = [socketRoomId EXCEPT ![s] = roomId]
           /\ nextRoomId' = nextRoomId + 1
           /\ vacatedAt' = [vacatedAt EXCEPT ![roomId] = 0]
           /\ lastOp' = [op |-> "create-room", socket |-> s,
                         roomId |-> roomId]
           /\ roomsUpdated' = getRoomList'
           /\ emitted' = { Event("room-created", {s}, roomId, 0, ""),
                           RoomsUpdated(sockStatus, getRoomList') }
    /\ UNCHANGED <<now, sockStatus, timers, lastJoinAt, apiVars>>

\* create-room storing the room with an empty member map.
CreateRoomWithoutCreator(s, roomName, nickname) ==
    /\ sockStatus[s] = "connected"
    /\ nextRoomId <= MaxRooms
    /\ LET roomId == nextRoomId
           room == [name |-> <<roomName>>, users |-> << >>,
                    createdAt |-> now, createdBy |-> nickname,
                    emptyAt |-> 0]
       IN  /\ rooms' = MapSet(rooms, roomId, room)
           /\ socketRooms' = [socketRooms EXCEPT ![s] = @ \cup {roomId}]
           /\ socketRoomId' = [socketRoomId EXCEPT ![s] = roomId]
           /\ nextRoomId' = nextRoomId + 1
           /\ vacatedAt' = [vacatedAt EXCEPT ![roomId] = 0]
           /\ lastOp' = [op |-> "create-room", socket |-> s,
                         roomId |-> roomId]
           /\ roomsUpdated' = getRoomList'
           /\ emitted' = { Event("room-created", {s}, roomId, 0, ""),
                           RoomsUpdated(sockStatus, getRoomList') }
    /\ UNCHANGED <<now, sockStatus, timers, lastJoinAt, apiVars>>

\* socket.on('create-room')
CreateRoom(s, roomName, nickname) ==
    /\ sockStatus[s] = "connected"
    /\ nextRoomId <= MaxRooms
    /\ LET roomId == nextRoomId
           room == [name |-> IF roomName # "" THEN <<roomName>>
                             ELSE <<"Room", Cardinality(DOMAIN rooms) + 1>>,
                    users |-> (s :> nickname),
                    createdAt |-> now,
                    createdBy |-> IF nickname # "" THEN nickname
                                  ELSE "Anonymous",
                    emptyAt |-> 0]
       IN  /\ rooms' = MapSet(rooms, roomId, room)
           /\ socketRooms' = [socketRooms EXCEPT ![s] = @ \cup {roomId}]
           /\ socketRoomId' = [socketRoomId EXCEPT ![s] = roomId]
           /\ nextRoomId' = nextRoomId + 1
           /\ vacatedAt' = [vacatedAt EXCEPT ![roomId] = 0]
           /\ lastOp' = [op |-> "create-room", socket |-> s,
                         roomId |-> roomId]
           /\ roomsUpdated' = getRoomList'
           /\ emitted' = { Event("room-created", {s}, roomId, 0, ""),
                           RoomsUpdated(sockStatus, getRoomList') }
    /\ UNCHANGED <<now, sockStatus, timers, lastJoinAt, apiVars>>

\* join-room recording the requested id as the socket's room even when the
\* room is not found.
JoinRoomKeepingRoomId(s, roomId, nickname) ==
    /\ sockStatus[s] = "connected"
    /\ roomId \notin DOMAIN rooms
    /\ lastOp' = [op |-> "join-room", socket |-> s, roomId |-> roomId]
    /\ emitted' = { Event("error", {s}, NoRoom, 0, "Room not found") }
    /\ socketRoomId' = [socketRoomId EXCEPT ![s] = roomId]
    /\ UNCHANGED <<now, sockStatus, socketRooms, rooms, nextRoomId, timers,
                   lastJoinAt, vacatedAt, roomsUpdated, apiVars>>

\* join-room taking the room-joined snapshot before the caller is added.
JoinRoomSnapshotBeforeAdd(s, roomId, nickname) ==
    /\ sockStatus[s] = "connected"
    /\ lastOp' = [op |-> "join-room", socket |-> s, roomId |-> roomId]
    /\ IF roomId \notin DOMAIN rooms
       THEN /\ emitted' = { Event("error", {s}, NoRoom, 0,
                                  "Room not found") }
            /\ UNCHANGED <<socketRoomId, socketRooms, rooms, lastJoinAt,
                           vacatedAt, roomsUpdated>>
       ELSE /\ rooms' = [rooms EXCEPT
                            ![roomId].emptyAt = 0,
                            ![roomId].users = MapSet(@, s, nickname)]
            /\ socketRooms' = [socketRooms EXCEPT ![s] = @ \cup {roomId}]
            /\ socketRoomId' = [socketRoomId EXCEPT ![s] = roomId]
            /\ lastJoinAt' = [lastJoinAt EXCEPT ![roomId] = now]
            /\ vacatedAt' = [vacatedAt EXCEPT ![roomId] = 0]
            /\ roomsUpdated' = getRoomList'
            /\ emitted' =
                 { RoomJoined(s, roomId, rooms[roomId]),
                   Event("user-joined",
                         SocketTo(s, roomId, sockStatus, socketRooms'),
                         roomId, Cardinality(DOMAIN rooms'[roomId].users),
                         ""),
                   RoomsUpdated(sockStatus, getRoomList') }
    /\ UNCHANGED <<now, sockStatus, nextRoomId, timers, apiVars>>

\* join-room without `delete room.emptyAt`.
JoinRoomKeepingEmptyAt(s, roomId, nickname) ==
    /\ sockStatus[s] = "connected"
    /\ lastOp' = [op |-> "join-room", socket |-> s, roomId |-> roomId]
    /\ IF roomId \notin DOMAIN rooms
       THEN /\ emitted' = { Event("error", {s}, NoRoom, 0,
                                  "Room not found") }
            /\ UNCHANGED <<socketRoomId, socketRooms, rooms, lastJoinAt,
                           vacatedAt, roomsUpdated>>
       ELSE /\ rooms' = [rooms EXCEPT
                            ![roomId].users = MapSet(@, s, nickname)]
            /\ socketRooms' = [socketRooms EXCEPT ![s] = @ \cup {roomId}]
            /\ socketRoomId' = [socketRoomId EXCEPT ![s] = roomId]
            /\ lastJoinAt' = [lastJoinAt EXCEPT ![roomId] = now]
            /\ vacatedAt' = [vacatedAt EXCEPT ![roomId] = 0]
            /\ roomsUpdated' = getRoomList'
            /\ emitted' =
                 { RoomJoined(s, roomId, rooms'[roomId]),
                   Event("user-joined",
                         SocketTo(s, roomId, sockStatus, socketRooms'),
                         roomId, Cardinality(DOMAIN rooms'[roomId].users),
                         ""),
                   RoomsUpdated(sockStatus, getRoomList') }
    /\ UNCHANGED <<now, sockStatus, nextRoomId, timers, apiVars>>

\* socket.on('join-room')
JoinRoom(s, roomId, nickname) ==
    /\ sockStatus[s] = "connected"
    /\ lastOp' = [op |-> "join-room", socket |-> s, roomId |-> roomId]
    /\ IF roomId \notin DOMAIN rooms
       THEN /\ emitted' = { Event("error", {s}, NoRoom, 0,
                                  "Room not found") }
            /\ UNCHANGED <<socketRoomId, socketRooms, rooms, lastJoinAt,
                           vacatedAt, roomsUpdated>>
       ELSE /\ rooms' = [rooms EXCEPT
                            ![roomId].emptyAt = 0,
                            ![roomId].users = MapSet(@, s, nickname)]
            /\ socketRooms' = [socketRooms EXCEPT ![s] = @ \cup {roomId}]
            /\ socketRoomId' = [socketRoomId EXCEPT ![s] = roomId]
            /\ lastJoinAt' = [lastJoinAt EXCEPT ![roomId] = now]
            /\ vacatedAt' = [vacatedAt EXCEPT ![roomId] = 0]
            /\ roomsUpdated' = getRoomList'
            /\ emitted' =
                 { RoomJoined(s, roomId, rooms'[roomId]),
                   Event("user-joined",
                         SocketTo(s, roomId, sockStatus, socketRooms'),
                         roomId, Cardinality(DOMAIN rooms'[roomId].users),
                         ""),
                   RoomsUpdated(sockStatus, getRoomList') }
    /\ UNCHANGED <<now, sockStatus, nextRoomId, timers, apiVars>>

\* socket.on('send-message'): relayed to the Socket.IO room when the room
\* is in the registry.
SendMessage(s, roomId) ==
    /\ sockStatus[s] = "connected"
    /\ lastOp' = [op |-> "send-message", socket |-> s, roomId |-> roomId]
    /\ emitted' = IF roomId \notin DOMAIN rooms THEN {}
                  ELSE { Event("new-message",
                               IoTo(roomId, sockStatus, socketRooms),
                               roomId, 0, "") }
    /\ UNCHANGED <<now, sockStatus, socketRoomId, socketRooms, rooms,
                   nextRoomId, timers, lastJoinAt, vacatedAt, roomsUpdated,
                   apiVars>>

\* handleLeaveRoom without the final socket.roomId = null.
handleLeaveRoomKeepingRoomId(s, curStatus, curSocketRooms) ==
    LET roomId == socketRoomId[s]
    IN  IF roomId = NoRoom \/ roomId \notin DOMAIN rooms
        THEN /\ UNCHANGED <<socketRoomId, rooms, timers, roomsUpdated>>
             /\ socketRooms' = curSocketRooms
             /\ vacatedAt' = VacatedAfter(curStatus, curSocketRooms)
             /\ emitted' = {}
        ELSE LET users == MapDelete(rooms[roomId].users, s)
                 nowEmpty == DOMAIN users = {}
             IN  /\ rooms' = [rooms EXCEPT
                                ![roomId].users = users,
                                ![roomId].emptyAt =
                                    IF nowEmpty THEN now ELSE @]
                 /\ timers' = IF nowEmpty
                              THEN timers \cup
                                   {[roomId |-> roomId,
                                     fireAt |-> now + GracePeriodMs]}
                              ELSE timers
                 /\ socketRooms' =
                        [curSocketRooms EXCEPT ![s] = @ \ {roomId}]
                 /\ UNCHANGED socketRoomId
                 /\ vacatedAt' =
                        VacatedAfter(curStatus,
                            [curSocketRooms EXCEPT ![s] = @ \ {roomId}])
                 /\ roomsUpdated' = getRoomList'
                 /\ emitted' =
                      { Event("user-left",
                              SocketTo(s, roomId, curStatus, curSocketRooms),
                              roomId, Cardinality(DOMAIN users), ""),
                        RoomsUpdated(curStatus, getRoomList') }

\* handleLeaveRoom(socket), given the socket's Socket.IO rooms and status
\* as they are when it runs.
handleLeaveRoom(s, curStatus, curSocketRooms) ==
    LET roomId == socketRoomId[s]
    IN  IF roomId = NoRoom \/ roomId \notin DOMAIN rooms
        THEN /\ UNCHANGED <<socketRoomId, rooms, timers, roomsUpdated>>
             /\ socketRooms' = curSocketRooms
             /\ vacatedAt' = VacatedAfter(curStatus, curSocketRooms)
             /\ emitted' = {}
        ELSE LET users == MapDelete(rooms[roomId].users, s)
                 nowEmpty == DOMAIN users = {}
             IN  /\ rooms' = [rooms EXCEPT
                                ![roomId].users = users,
                                ![roomId].emptyAt =
                                    IF nowEmpty THEN now ELSE @]
                 /\ timers' = IF nowEmpty
                              THEN timers \cup
                                   {[roomId |-> roomId,
                                     fireAt |-> now + GracePeriodMs]}
                              ELSE timers
                 /\ socketRooms' =
                        [curSocketRooms EXCEPT ![s] = @ \ {roomId}]
                 /\ socketRoomId' = [socketRoomId EXCEPT ![s] = NoRoom]
                 /\ vacatedAt' =
                        VacatedAfter(curStatus,
                            [curSocketRooms EXCEPT ![s] = @ \ {roomId}])
                 /\ roomsUpdated' = getRoomList'
                 /\ emitted' =
                      { Event("user-left",
                              SocketTo(s, roomId, curStatus, curSocketRooms),
                              roomId, Cardinality(DOMAIN users), ""),
                        RoomsUpdated(curStatus, getRoomList') }

\* socket.on('leave-room')
LeaveRoom(s) ==
    /\ sockStatus[s] = "connected"
    /\ lastOp' = [op |-> "leave-room", socket |-> s,
                  roomId |-> socketRoomId[s]]
    /\ handleLeaveRoom(s, sockStatus, socketRooms)
    /\ UNCHANGED <<now, sockStatus, nextRoomId, lastJoinAt, apiVars>>

\* socket.on('disconnect'): Socket.IO has already removed the socket from
\* all of its rooms when the handler runs.
Disconnect(s) ==
    /\ sockStatus[s] = "connected"
    /\ sockStatus' = [sockStatus EXCEPT ![s] = "closed"]
    /\ lastOp' = [op |-> "disconnect", socket |-> s,
                  roomId |-> socketRoomId[s]]
    /\ handleLeaveRoom(s, sockStatus', [socketRooms EXCEPT ![s] = {}])
    /\ UNCHANGED <<now, nextRoomId, lastJoinAt, apiVars>>

\* The timer callback deleting the room without the broadcast.
FireTimerSilent(tm) ==
    /\ tm \in timers
    /\ now >= tm.fireAt
    /\ timers' = timers \ {tm}
    /\ lastOp' = [op |-> "timer", socket |-> 0, roomId |-> tm.roomId]
    /\ emitted' = {}
    /\ rooms' = IF /\ tm.roomId \in DOMAIN rooms
                   /\ DOMAIN rooms[tm.roomId].users = {}
                   /\ rooms[tm.roomId].emptyAt # 0
                THEN MapDelete(rooms, tm.roomId)
                ELSE rooms
    /\ UNCHANGED <<now, sockStatus, socketRoomId, socketRooms, nextRoomId,
                   lastJoinAt, vacatedAt, roomsUpdated, apiVars>>

\* The setTimeout callback scheduled by handleLeaveRoom.
FireTimer(tm) ==
    /\ tm \in timers
    /\ now >= tm.fireAt
    /\ timers' = timers \ {tm}
    /\ lastOp' = [op |-> "timer", socket |-> 0, roomId |-> tm.roomId]
    /\ IF /\ tm.roomId \in DOMAIN rooms
          /\ DOMAIN rooms[tm.roomId].users = {}
          /\ rooms[tm.roomId].emptyAt # 0
       THEN /\ rooms' = MapDelete(rooms, tm.roomId)
            /\ roomsUpdated' = getRoomList'
            /\ emitted' = { RoomsUpdated(sockStatus, getRoomList') }
       ELSE /\ emitted' = {}
            /\ UNCHANGED <<rooms, roomsUpdated>>
    /\ UNCHANGED <<now, sockStatus, socketRoomId, socketRooms, nextRoomId,
                   lastJoinAt, vacatedAt, apiVars>>

NextRooms ==
    \/ /\ Tick(RoomInstants)
       /\ UNCHANGED asyncVars
    \/ /\ AdvanceToTimer
       /\ UNCHANGED asyncVars
    \/ /\ \E s \in Sockets : Connect(s)
       /\ UNCHANGED asyncVars
    \/ /\ \E s \in Sockets, rn \in RoomNames, nn \in Nicknames :
          CreateRoom(s, rn, nn)
       /\ UNCHANGED asyncVars
    \/ /\ \E s \in Sockets, r \in RoomIds, nn \in Nicknames : JoinRoom(s, r, nn)
       /\ UNCHANGED asyncVars
    \/ /\ \E s \in Sockets, r \in RoomIds : SendMessage(s, r)
       /\ UNCHANGED asyncVars
    \/ /\ \E s \in Sockets : LeaveRoom(s)
       /\ UNCHANGED asyncVars
    \/ /\ \E s \in Sockets : Disconnect(s)
       /\ UNCHANGED asyncVars
    \/ /\ \E tm \in timers : FireTimer(tm)
       /\ UNCHANGED asyncVars

SpecRooms == Init /\ [][NextRooms]_vars

\* The registry under create-room with and without a name, with rooms
\* coming and going.
NextNames ==
    \/ /\ AdvanceToTimer
       /\ UNCHANGED asyncVars
    \/ /\ \E s \in Sockets : Connect(s)
       /\ UNCHANGED asyncVars
    \/ /\ \E s \in Sockets, rn \in RoomNameInputs, nn \in Nicknames :
          CreateRoom(s, rn, nn)
       /\ UNCHANGED asyncVars
    \/ /\ \E s \in Sockets : LeaveRoom(s)
       /\ UNCHANGED asyncVars
    \/ /\ \E s \in Sockets : Disconnect(s)
       /\ UNCHANGED asyncVars
    \/ /\ \E tm \in timers : FireTimer(tm)
       /\ UNCHANGED asyncVars

SpecNames == Init /\ [][NextNames]_vars

\* =========================================================== HTTP pipeline
\* ---- rate-limit store (middleware/rateLimiter.js)

\* keyGenerator of the three limiters: the device id header, else the ip.
keyGenerator(dev) == IF dev # NoDevice THEN dev ELSE ClientIp

\* The `max` option of each rateLimit({...}) instance.
MaxOf(limiter) ==
    CASE limiter = "api" -> ApiMax
      [] limiter = "strict" -> StrictMax
      [] limiter = "queue" -> QueueMax

\* The Map behind the store handed to each limiter: every store returned by
\* createRateLimitStore() closes over the one module-level requestCounts.
StoreOf(limiter, counts) == counts

\* What the store of `limiter` holds for `key` (<<>> when it has no entry).
StoreView(limiter, counts, key) ==
    IF key \in DOMAIN StoreOf(limiter, counts)
    THEN StoreOf(limiter, counts)[key]
    ELSE << >>

\* increment with the window restarted already at t = resetTime.
incrementResetAtBoundary(counts, key, t) ==
    IF key \notin DOMAIN counts
    THEN [count |-> 1, resetTime |-> t + WindowMs]
    ELSE IF t >= counts[key].resetTime
         THEN [count |-> 1, resetTime |-> t + WindowMs]
         ELSE [count |-> counts[key].count + 1,
               resetTime |-> counts[key].resetTime]

\* store.increment(key): the entry it leaves in the Map at time t.
increment(counts, key, t) ==
    IF key \notin DOMAIN counts
    THEN [count |-> 1, resetTime |-> t + WindowMs]
    ELSE IF t > counts[key].resetTime
         THEN [count |-> 1, resetTime |-> t + WindowMs]
         ELSE [count |-> counts[key].count + 1,
               resetTime |-> counts[key].resetTime]

\* rateLimit rejecting already the hit that reaches max.
rateLimitBelowMax(limiter, counts, dev, t) ==
    LET key == keyGenerator(dev)
        entry == increment(StoreOf(limiter, counts), key, t)
    IN  [counts |-> MapSet(counts, key, entry),
         hit |-> [limiter |-> limiter, key |-> key,
                  totalHits |-> entry.count, resetTime |-> entry.resetTime,
                  allowed |-> entry.count < MaxOf(limiter)]]

\* One pass of a request through rateLimit({max, store, keyGenerator}):
\* the store is incremented, and the request is rejected with 429 when
\* totalHits exceeds max.
rateLimit(limiter, counts, dev, t) ==
    LET key == keyGenerator(dev)
        entry == increment(StoreOf(limiter, counts), key, t)
    IN  [counts |-> MapSet(counts, key, entry),
         hit |-> [limiter |-> limiter, key |-> key,
                  totalHits |-> entry.count, resetTime |-> entry.resetTime,
                  allowed |-> entry.count <= MaxOf(limiter)]]

\* Bookkeeping of the hits each key received in its running window: a
\* window opens with the first hit and with the first hit after the
\* previous window's reset time; n counts its hits, by names the limiters
\* they went through.
NoteHit(w, limiter, key, t) ==
    IF key \notin DOMAIN w
    THEN MapSet(w, key, [start |-> t, n |-> 1, by |-> {limiter}])
    ELSE IF t > w[key].start + WindowMs
         THEN [w EXCEPT ![key] = [start |-> t, n |-> 1, by |-> {limiter}]]
         ELSE [w EXCEPT ![key].n = @ + 1, ![key].by = @ \cup {limiter}]

\* Bookkeeping of the hits sent through each limiter, per key, in one-minute
\* windows opened by that limiter's own hits.
NoteLimiterHit(w, limiter, key, t) ==
    LET idx == <<limiter, key>>
    IN  IF idx \notin DOMAIN w
        THEN MapSet(w, idx, [start |-> t, n |-> 1])
        ELSE IF t > w[idx].start + WindowMs
             THEN [w EXCEPT ![idx] = [start |-> t, n |-> 1]]
             ELSE [w EXCEPT ![idx].n = @ + 1]

\* ---- Device documents (models/Device.js)
DayOf(t) == t \div DayMs

\* A document with the schema's defaults (null is "" or 0); bio is handled
\* like nickname and left out.
NewDevice(t) ==
    [nickname |-> "",
     gender |-> "",
     verified_at |-> 0,
     daily_matches |-> [male |-> 0, female |-> 0, any |-> 0],
     last_reset |-> t,
     last_queue_join |-> 0,
     is_banned |-> FALSE,
     ban_reason |-> "",
     ban_until |-> 0]

\* resetDailyCountsIfNeeded leaving the counter of filter 'any' as it is.
resetDailyCountsKeepingAny(doc, t) ==
    IF DayOf(t) # DayOf(doc.last_reset)
    THEN [doc EXCEPT !.daily_matches = [male |-> 0, female |-> 0,
                                        any |-> doc.daily_matches.any],
                     !.last_reset = t]
    ELSE doc

resetDailyCountsIfNeeded(doc, t) ==
    IF DayOf(t) # DayOf(doc.last_reset)
    THEN [doc EXCEPT !.daily_matches = [male |-> 0, female |-> 0, any |-> 0],
                     !.last_reset = t]
    ELSE doc

canJoinQueue(doc, cooldownSeconds, t) ==
    \/ doc.last_queue_join = 0
    \/ t - doc.last_queue_join >= cooldownSeconds * 1000

\* hasReachedDailyLimit reporting the limit only above 5.
hasReachedDailyLimitAbove(doc, filterType, t) ==
    resetDailyCountsIfNeeded(doc, t).daily_matches[filterType] > DailyLimit

hasReachedDailyLimit(doc, filterType, t) ==
    resetDailyCountsIfNeeded(doc, t).daily_matches[filterType] >= DailyLimit

incrementMatchCount(doc, filterType, t) ==
    LET d == resetDailyCountsIfNeeded(doc, t)
    IN  [d EXCEPT !.daily_matches[filterType] = @ + 1]

updateQueueJoinTime(doc, t) == [doc EXCEPT !.last_queue_join = t]

\* Math.ceil(cooldownSeconds - (t - last) / 1000) for a positive remainder.
RemainingCooldown(doc, cooldownSeconds, t) ==
    (cooldownSeconds * 1000 - (t - doc.last_queue_join) + 999) \div 1000

\* ---- middleware (middleware/usageLimits.js, rateLimiter.js, index.js)
\* A request context: the request, the stores as the chain has left them,
\* the loaded document (req.device), the response and whether the
\* middleware that just ran called next().
NoDoc == << >>

Respond(c, status, by) ==
    [c EXCEPT !.status = status, !.by = by, !.next = FALSE]

LimiterMw(limiter, name, c) ==
    LET r == rateLimit(limiter, c.counts, c.dev, c.t)
        c1 == [c EXCEPT !.counts = r.counts,
                        !.hit = r.hit,
                        !.whits = NoteHit(@, limiter, r.hit.key, c.t),
                        !.lwins = NoteLimiterHit(@, limiter, r.hit.key, c.t)]
    IN  IF r.hit.allowed THEN c1 ELSE Respond(c1, 429, name)

\* The identifier falling back to the client address when the request
\* carries none.
RequestDeviceIdOrIp(dev, alt) ==
    IF dev # NoDevice THEN dev ELSE IF alt # NoDevice THEN alt ELSE ClientIp

\* req.headers['x-device-id'] || req.body.device_id || req.query.device_id,
\* with alt the device_id of the body or query.
RequestDeviceId(dev, alt) ==
    IF dev # NoDevice THEN dev ELSE alt

validateDeviceId(c) ==
    IF RequestDeviceId(c.dev, c.alt) = NoDevice
    THEN Respond(c, 400, "validateDeviceId")
    ELSE [c EXCEPT !.deviceId = RequestDeviceId(c.dev, c.alt)]

getOrCreateDevice(c) ==
    IF c.deviceId = NoDevice THEN Respond(c, 400, "getOrCreateDevice")
    ELSE IF c.deviceId \in DOMAIN c.devs
    THEN [c EXCEPT !.doc = c.devs[c.deviceId]]
    ELSE [c EXCEPT !.doc = NewDevice(c.t),
                   !.devs = MapSet(@, c.deviceId, NewDevice(c.t))]

\* checkBanStatus clearing an expired ban without device.save().
checkBanStatusWithoutSave(c) ==
    IF c.doc = NoDoc THEN Respond(c, 400, "checkBanStatus")
    ELSE IF ~ c.doc.is_banned THEN c
    ELSE IF c.doc.ban_until # 0 /\ c.t > c.doc.ban_until
         THEN [c EXCEPT !.doc = [c.doc EXCEPT !.is_banned = FALSE,
                                              !.ban_reason = "",
                                              !.ban_until = 0]]
         ELSE Respond(c, 403, "checkBanStatus")

checkBanStatus(c) ==
    IF c.doc = NoDoc THEN Respond(c, 400, "checkBanStatus")
    ELSE IF ~ c.doc.is_banned THEN c
    ELSE IF c.doc.ban_until # 0 /\ c.t > c.doc.ban_until
         THEN LET d == [c.doc EXCEPT !.is_banned = FALSE,
                                     !.ban_reason = "",
                                     !.ban_until = 0]
              IN  [c EXCEPT !.doc = d, !.devs = MapSet(@, c.deviceId, d)]
         ELSE Respond(c, 403, "checkBanStatus")

checkDailyMatchLimit(c) ==
    IF c.doc = NoDoc THEN Respond(c, 400, "checkDailyMatchLimit")
    ELSE LET d == resetDailyCountsIfNeeded(c.doc, c.t)
             c1 == [c EXCEPT !.doc = d]
         IN  IF c.filter # "any" /\ hasReachedDailyLimit(d, c.filter, c.t)
             THEN Respond(c1, 429, "checkDailyMatchLimit")
             ELSE c1

checkQueueCooldown(c) ==
    IF c.doc = NoDoc THEN Respond(c, 400, "checkQueueCooldown")
    ELSE IF ~ canJoinQueue(c.doc, CooldownSeconds, c.t)
         THEN [Respond(c, 429, "checkQueueCooldown") EXCEPT
                 !.remaining = RemainingCooldown(c.doc, CooldownSeconds, c.t)]
         ELSE c

\* The route handlers of index.js answer and do not call next().
queueJoinHandler(c) == Respond(c, 200, "handler")
matchesHandler(c) == Respond(c, 200, "handler")

\* String.prototype.includes
includes(text, word) ==
    \E i \in 0..(Len(text) - Len(word)) :
        SubSeq(text, i + 1, i + Len(word)) = word

\* String.prototype.toLowerCase, on the letters the replies use.
toLowerCase(text) ==
    [ i \in DOMAIN text |->
        CASE text[i] = "F" -> "f"
          [] text[i] = "M" -> "m"
          [] OTHER -> text[i] ]

\* String.prototype.trim
WhiteSpace == {" ", "\n"}
RECURSIVE trim(_)
trim(text) ==
    IF text = << >> THEN text
    ELSE IF Head(text) \in WhiteSpace THEN trim(Tail(text))
    ELSE IF text[Len(text)] \in WhiteSpace
         THEN trim(SubSeq(text, 1, Len(text) - 1))
    ELSE text

\* The gender the handler derives from the classifier's reply.
classify(reply) ==
    LET text == toLowerCase(trim(reply))
    IN  IF includes(text, MaleText) /\ ~ includes(text, FemaleText)
        THEN "male"
        ELSE IF includes(text, FemaleText) /\ ~ includes(text, MaleText)
        THEN "female"
        ELSE "unknown"

\* POST /api/verify-gender handler; body is what happens to the request:
\* Gemini not configured (500), no image sent (400), an API failure other
\* than 429 (rethrown, 500), a 429 (mock gender 'male'), or a reply that
\* is classified; gender 'unknown' is answered 422, any other is saved.
verifyGenderHandler(c) ==
    CASE c.body.kind = "unconfigured" -> Respond(c, 500, "handler")
      [] c.body.kind = "noimage" -> Respond(c, 400, "handler")
      [] c.body.kind = "apierror" -> Respond(c, 500, "handler")
      [] OTHER ->
            LET gender == IF c.body.kind = "quota" THEN "male"
                          ELSE classify(c.body.text)
                d == [c.doc EXCEPT !.gender = gender, !.verified_at = c.t]
            IN  IF gender = "unknown" THEN Respond(c, 422, "handler")
                ELSE Respond([c EXCEPT !.doc = d,
                                       !.devs = MapSet(@, c.deviceId, d)],
                             200, "handler")

\* GET /api/device/stats handler: the counters are reset on the loaded
\* document, which is not saved.
deviceStatsHandler(c) ==
    Respond([c EXCEPT !.doc = resetDailyCountsIfNeeded(c.doc, c.t)],
            200, "handler")

\* POST /api/profile handler; body is the nickname sent.
profileHandler(c) ==
    LET d == [c.doc EXCEPT !.nickname = c.body]
    IN  Respond([c EXCEPT !.doc = d, !.devs = MapSet(@, c.deviceId, d)],
                200, "handler")

\* updateQueueJoinTime answering 500 when device.save() rejects.
updateQueueJoinTimeMwFailing(c) ==
    IF c.doc = NoDoc THEN c
    ELSE LET d == updateQueueJoinTime(c.doc, c.t)
         IN  IF "updateQueueJoinTime" \in c.saveFails
             THEN Respond([c EXCEPT !.doc = d,
                                    !.failed = @ \cup {"updateQueueJoinTime"}],
                          500, "updateQueueJoinTime")
             ELSE [c EXCEPT !.doc = d, !.devs = MapSet(@, c.deviceId, d)]

\* The updateQueueJoinTime middleware: the loaded document is changed, then
\* saved; when device.save() rejects, the catch block logs and calls next().
updateQueueJoinTimeMw(c) ==
    IF c.doc = NoDoc THEN c
    ELSE LET d == updateQueueJoinTime(c.doc, c.t)
         IN  IF "updateQueueJoinTime" \in c.saveFails
             THEN [c EXCEPT !.doc = d,
                            !.failed = @ \cup {"updateQueueJoinTime"}]
             ELSE [c EXCEPT !.doc = d, !.devs = MapSet(@, c.deviceId, d)]

\* The incrementMatchCount middleware, with the same catch block.
incrementMatchCountMw(c) ==
    IF c.doc = NoDoc THEN c
    ELSE LET d == incrementMatchCount(c.doc, c.filter, c.t)
         IN  IF "incrementMatchCount" \in c.saveFails
             THEN [c EXCEPT !.doc = d,
                            !.failed = @ \cup {"incrementMatchCount"}]
             ELSE [c EXCEPT !.doc = d, !.devs = MapSet(@, c.deviceId, d)]

Middleware(name, c) ==
    CASE name = "apiRateLimiter" -> LimiterMw("api", name, c)
      [] name = "strictRateLimiter" -> LimiterMw("strict", name, c)
      [] name = "queueRateLimiter" -> LimiterMw("queue", name, c)
      [] name = "validateDeviceId" -> validateDeviceId(c)
      [] name = "getOrCreateDevice" -> getOrCreateDevice(c)
      [] name = "checkBanStatus" -> checkBanStatus(c)
      [] name = "checkDailyMatchLimit" -> checkDailyMatchLimit(c)
      [] name = "checkQueueCooldown" -> checkQueueCooldown(c)
      [] name = "queueJoinHandler" -> queueJoinHandler(c)
      [] name = "updateQueueJoinTime" -> updateQueueJoinTimeMw(c)
      [] name = "matchesHandler" -> matchesHandler(c)
      [] name = "incrementMatchCount" -> incrementMatchCountMw(c)
      [] name = "verifyGenderHandler" -> verifyGenderHandler(c)
      [] name = "deviceStatsHandler" -> deviceStatsHandler(c)
      [] name = "profileHandler" -> profileHandler(c)

\* The middleware stacks of index.js; app.use('/api', apiRateLimiter)
\* precedes every route registered after it.
QueueJoinChainCooldownFirst ==
    <<"apiRateLimiter", "validateDeviceId", "getOrCreateDevice",
      "checkQueueCooldown", "checkBanStatus", "checkDailyMatchLimit",
      "queueRateLimiter", "queueJoinHandler", "updateQueueJoinTime">>
QueueJoinChain ==
    <<"apiRateLimiter", "validateDeviceId", "getOrCreateDevice",
      "checkBanStatus", "checkDailyMatchLimit", "checkQueueCooldown",
      "queueRateLimiter", "queueJoinHandler", "updateQueueJoinTime">>
MatchesChain ==
    <<"apiRateLimiter", "validateDeviceId", "getOrCreateDevice",
      "checkBanStatus", "matchesHandler", "incrementMatchCount">>
VerifyGenderChain ==
    <<"apiRateLimiter", "validateDeviceId", "getOrCreateDevice",
      "checkBanStatus", "verifyGenderHandler">>
DeviceStatsChain ==
    <<"apiRateLimiter", "validateDeviceId", "getOrCreateDevice",
      "deviceStatsHandler">>
ProfileChain ==
    <<"apiRateLimiter", "validateDeviceId", "getOrCreateDevice",
      "profileHandler">>
Handlers ==
    {"queueJoinHandler", "matchesHandler", "verifyGenderHandler",
     "deviceStatsHandler", "profileHandler"}

\* Express runs the stack in order; a middleware that does not call next()
\* ends the request.
RECURSIVE RunChain(_, _, _)
RunChain(chain, i, c) ==
    IF i > Len(chain) THEN c
    ELSE LET c1 == Middleware(chain[i],
                              [c EXCEPT !.next = TRUE,
                                        !.ran = Append(@, chain[i])])
         IN  IF c1.next THEN RunChain(chain, i + 1, c1) ELSE c1

Context(dev, alt, filter, body) ==
    [dev |-> dev, alt |-> alt, filter |-> filter, body |-> body, t |-> now,
     deviceId |-> NoDevice, ran |-> << >>, saveFails |-> {}, failed |-> {},
     counts |-> requestCounts, devs |-> devices, doc |-> NoDoc,
     status |-> 0, by |-> "none", remaining |-> 0,
     hit |-> lastHit, whits |-> windowHits, lwins |-> limiterWindows,
     next |-> TRUE]

\* Counters are bounded: a key whose running window already holds MaxCount
\* hits receives no further request before the window closes.
CanHit(dev) ==
    LET key == keyGenerator(dev)
    IN  IF key \notin DOMAIN requestCounts THEN TRUE
        ELSE \/ requestCounts[key].count < MaxCount
             \/ now > requestCounts[key].resetTime

\* The value daily_matches[filter] has for the device when the request
\* arrives, after the day-rollover reset.
CountBefore(dev, filter) ==
    IF dev \in DOMAIN devices
    THEN resetDailyCountsIfNeeded(devices[dev], now).daily_matches[filter]
    ELSE 0

\* One request with context c0 through a middleware stack.
RunRequest(route, chain, c0) ==
    LET dev == c0.dev
        alt == c0.alt
        filter == c0.filter
    IN
    /\ CanHit(dev)
    /\ \E c \in {RunChain(chain, 1, c0)} :
           /\ requestCounts' = c.counts
           /\ devices' = c.devs
           /\ lastHit' = c.hit
           /\ windowHits' = c.whits
           /\ limiterWindows' = c.lwins
           /\ lastResponse' =
                [route |-> route, device |-> dev, alt |-> alt,
                 deviceId |-> c.deviceId, filter |-> filter,
                 status |-> c.status, by |-> c.by,
                 remaining |-> c.remaining,
                 sinceJoin |-> IF /\ RequestDeviceId(dev, alt) \in DeviceIds
                                  /\ joinedOkAt[RequestDeviceId(dev, alt)] # 0
                               THEN now - joinedOkAt[RequestDeviceId(dev, alt)]
                               ELSE -1,
                 countBefore |->
                    CountBefore(RequestDeviceId(dev, alt), filter),
                 ran |-> c.ran, doc |-> c.doc, next |-> c.next,
                 failed |-> c.failed]
           /\ joinedOkAt' =
                IF route = "queue/join" /\ c.status = 200
                THEN [joinedOkAt EXCEPT ![c.deviceId] = now]
                ELSE joinedOkAt
    /\ UNCHANGED <<now, roomVars>>

HttpRequest(route, chain, dev, alt, filter, body) ==
    RunRequest(route, chain, Context(dev, alt, filter, body))

\* POST /api/queue/join
QueueJoin(dev, alt, filter) ==
    HttpRequest("queue/join", QueueJoinChain, dev, alt, filter, "")

\* POST /api/matches
Matches(dev, alt, filter) ==
    HttpRequest("matches", MatchesChain, dev, alt, filter, "")

\* POST /api/verify-gender
VerifyGender(dev, alt, verdict) ==
    HttpRequest("verify-gender", VerifyGenderChain, dev, alt, "any", verdict)

\* GET /api/device/stats
DeviceStats(dev, alt) ==
    HttpRequest("device/stats", DeviceStatsChain, dev, alt, "any", "")

\* POST /api/profile
Profile(dev, alt, nickname) ==
    HttpRequest("profile", ProfileChain, dev, alt, "any", nickname)

\* A request passing through one of the exported limiters alone.
LimiterHit(limiter, dev) ==
    /\ CanHit(dev)
    /\ \E r \in {rateLimit(limiter, requestCounts, dev, now)} :
           /\ requestCounts' = r.counts
           /\ lastHit' = r.hit
           /\ windowHits' = NoteHit(windowHits, limiter, r.hit.key, now)
           /\ limiterWindows' =
                NoteLimiterHit(limiterWindows, limiter, r.hit.key, now)
    /\ UNCHANGED <<now, roomVars, devices, lastResponse, joinedOkAt>>

\* The two bookkeeping middlewares mounted one after the other behind the
\* device lookup, each device.save() rejecting or not.
BookkeepingChain ==
    <<"validateDeviceId", "getOrCreateDevice", "updateQueueJoinTime",
      "incrementMatchCount">>
BookkeepingNames == {"updateQueueJoinTime", "incrementMatchCount"}

Bookkeeping(dev, filter, fails) ==
    /\ CountBefore(dev, filter) < MaxDailyMatches
    /\ RunRequest("bookkeeping", BookkeepingChain,
                  [Context(dev, NoDevice, filter, "") EXCEPT
                      !.saveFails = fails])

NextBookkeeping ==
    \/ /\ Tick(PolicyInstants)
       /\ UNCHANGED asyncVars
    \/ /\ \E dev \in DeviceIds \cup {NoDevice}, f \in Filters,
          fails \in SUBSET BookkeepingNames :
          Bookkeeping(dev, f, fails)
       /\ UNCHANGED asyncVars

SpecBookkeeping == Init /\ [][NextBookkeeping]_vars

NextApi ==
    \/ /\ Tick(ApiInstants)
       /\ UNCHANGED asyncVars
    \/ /\ \E dev \in DeviceIds \cup {NoDevice}, f \in Filters :
          QueueJoin(dev, NoDevice, f)
       /\ UNCHANGED asyncVars
    \/ /\ \E dev \in DeviceIds \cup {NoDevice}, f \in Filters :
          Matches(dev, NoDevice, f)
       /\ UNCHANGED asyncVars

SpecApi == Init /\ [][NextApi]_vars

\* A sweep that drops every entry whose window has closed.
SweepClosedWindows ==
    /\ now > StartTime
    /\ (now - StartTime) % SweepIntervalMs = 0
    /\ requestCounts' =
         [ k \in { x \in DOMAIN requestCounts :
                      ~ (now - requestCounts[x].resetTime > 0) }
             |-> requestCounts[k] ]
    /\ UNCHANGED <<now, roomVars, devices, lastResponse, lastHit,
                   windowHits, limiterWindows, joinedOkAt>>

\* The setInterval callback: at every multiple of five minutes after the
\* module was loaded, entries with now - resetTime > oneHour are deleted.
Sweep ==
    /\ now > StartTime
    /\ (now - StartTime) % SweepIntervalMs = 0
    /\ requestCounts' =
         [ k \in { x \in DOMAIN requestCounts :
                      ~ (now - requestCounts[x].resetTime > OneHourMs) }
             |-> requestCounts[k] ]
    /\ UNCHANGED <<now, roomVars, devices, lastResponse, lastHit,
                   windowHits, limiterWindows, joinedOkAt>>

\* Under the sweep a key receives at most MaxSweepHits hits per window.
SweepCanHit(dev) ==
    LET key == keyGenerator(dev)
    IN  IF key \notin DOMAIN requestCounts THEN TRUE
        ELSE \/ requestCounts[key].count < MaxSweepHits
             \/ now > requestCounts[key].resetTime

NextSweep ==
    \/ /\ Tick(SweepInstants)
       /\ UNCHANGED asyncVars
    \/ /\ \E dev \in DeviceIds \cup {NoDevice} :
          SweepCanHit(dev) /\ LimiterHit("api", dev)
       /\ UNCHANGED asyncVars
    \/ /\ Sweep
       /\ UNCHANGED asyncVars

SpecSweep == Init /\ [][NextSweep]_vars

NextLimiter ==
    \/ /\ Tick(LimiterInstants)
       /\ UNCHANGED asyncVars
    \/ /\ \E l \in Limiters, dev \in DeviceIds : LimiterHit(l, dev)
       /\ UNCHANGED asyncVars

SpecLimiter == Init /\ [][NextLimiter]_vars

\* ---- bookkeeping middlewares (SpecBookkeeping)

C22_SweepRemovesOnlyIdleEntries ==
    [][Sweep
       => /\ \A k \in DOMAIN requestCounts :
                /\ requestCounts[k].resetTime + OneHourMs < now
                     => k \notin DOMAIN requestCounts'
                /\ requestCounts[k].resetTime + OneHourMs > now
                     => /\ k \in DOMAIN requestCounts'
                        /\ requestCounts'[k] = requestCounts[k]
          /\ DOMAIN requestCounts' \subseteq DOMAIN requestCounts
          /\ \A l \in Limiters, dev \in DeviceIds \cup {NoDevice},
                t \in SweepInstants :
                t >= now
                => rateLimit(l, requestCounts', dev, t).hit
                     = rateLimit(l, requestCounts, dev, t).hit
      ]_vars

\* C22 witness: a sweep has removed the entry of one key while the entry of
\* another key, whose window is closed as well, is still in the Map.
C22_OneSweptOneKept ==
    /\ \E k \in DOMAIN windowHits : k \notin DOMAIN requestCounts
    /\ \E k \in DOMAIN requestCounts : requestCounts[k].resetTime < now

\* ---- the usage policy over stored documents
\* Documents the Device collection may hold when the server starts: written
\* by earlier runs and by the operators (bans are set outside this code).
StoredCounters ==
    { [male |-> 0, female |-> 0, any |-> 0],
      [male |-> 5, female |-> 0, any |-> 0],
      [male |-> 0, female |-> 5, any |-> 0],
      [male |-> 4, female |-> 6, any |-> 9] }
StoredBans ==
    { [is_banned |-> FALSE, ban_reason |-> "", ban_until |-> 0],
      [is_banned |-> TRUE, ban_reason |-> "spam", ban_until |-> 0],
      [is_banned |-> TRUE, ban_reason |-> "spam", ban_until |-> StartTime] }
StoredDocs ==
    { [NewDevice(StartTime) EXCEPT
          !.daily_matches = cnt,
          !.last_reset = lr,
          !.last_queue_join = lqj,
          !.is_banned = ban.is_banned,
          !.ban_reason = ban.ban_reason,
          !.ban_until = ban.ban_until] :
      cnt \in StoredCounters,
      lr \in {StartTime - DayMs, StartTime},
      lqj \in {0, StartTime - 10000},
      ban \in StoredBans }

InitPolicy ==
    /\ now = StartTime
    /\ InitRooms
    /\ requestCounts = << >>
    /\ devices \in {<< >>} \cup { (d :> doc) : d \in DeviceIds,
                                                doc \in StoredDocs }
    /\ lastResponse = NoResponse
    /\ lastHit = NoHit
    /\ windowHits = << >>
    /\ limiterWindows = << >>
    /\ joinedOkAt = [d \in DeviceIds |-> 0]
    /\ InitAsync
    /\ InitClients

\* The requests of one run are bounded per rate-limit key.
PolicyCanHit(dev) ==
    LET key == keyGenerator(dev)
    IN  IF key \notin DOMAIN requestCounts THEN TRUE
        ELSE requestCounts[key].count < MaxPolicyHits

\* A request carries its identifier in the header, in the body or query,
\* or not at all.
PolicyIdents ==
    { <<d, NoDevice>> : d \in DeviceIds } \cup
    { <<NoDevice, d>> : d \in DeviceIds } \cup
    { <<NoDevice, NoDevice>> }

NextPolicy ==
    \/ /\ Tick(PolicyInstants)
       /\ UNCHANGED asyncVars
    \/ /\ \E id \in PolicyIdents, f \in Filters :
          PolicyCanHit(id[1]) /\ QueueJoin(id[1], id[2], f)
       /\ UNCHANGED asyncVars
    \/ /\ \E id \in PolicyIdents, f \in Filters :
          PolicyCanHit(id[1]) /\ Matches(id[1], id[2], f)
       /\ UNCHANGED asyncVars
    \/ /\ \E id \in PolicyIdents, v \in Verdicts :
          PolicyCanHit(id[1]) /\ VerifyGender(id[1], id[2], v)
       /\ UNCHANGED asyncVars
    \/ /\ \E id \in PolicyIdents :
          PolicyCanHit(id[1]) /\ DeviceStats(id[1], id[2])
       /\ UNCHANGED asyncVars
    \/ /\ \E id \in PolicyIdents, nn \in Nicknames :
          PolicyCanHit(id[1]) /\ Profile(id[1], id[2], nn)
       /\ UNCHANGED asyncVars

SpecPolicy == InitPolicy /\ [][NextPolicy]_vars

\* Gender verification with every outcome of the classification.
NextVerify ==
    \/ /\ Tick(PolicyInstants)
       /\ UNCHANGED asyncVars
    \/ /\ \E id \in PolicyIdents, v \in AllVerdicts :
          PolicyCanHit(id[1]) /\ VerifyGender(id[1], id[2], v)
       /\ UNCHANGED asyncVars

SpecVerify == Init /\ [][NextVerify]_vars

\* ---- POST /api/profile with its awaits as separate steps
\* The synchronous head of the stack: the API limiter and validateDeviceId.
ProfileHead == <<"apiRateLimiter", "validateDeviceId">>

\* A request arrives and runs up to `await Device.findOne(...)` in
\* getOrCreateDevice, unless the head of the stack has answered it.
Arrive(q, dev, nickname) ==
    /\ inflight[q].pc \in {"idle", "done"}
    /\ PolicyCanHit(dev)
    /\ \E c \in {RunChain(ProfileHead, 1,
                           Context(dev, NoDevice, "any", nickname))} :
           /\ requestCounts' = c.counts
           /\ lastHit' = c.hit
           /\ windowHits' = c.whits
           /\ limiterWindows' = c.lwins
           /\ inflight' =
                [inflight EXCEPT ![q] =
                    IF c.next
                    THEN [pc |-> "findOne", deviceId |-> c.deviceId,
                          nickname |-> nickname, status |-> 0]
                    ELSE [pc |-> "done", deviceId |-> c.deviceId,
                          nickname |-> nickname, status |-> c.status]]
    /\ UNCHANGED <<now, roomVars, devices, lastResponse, joinedOkAt,
                   clients>>

\* Device.findOne resolves: with the document, after which the handler sets
\* the nickname and awaits save(); or with null, after which a new Device
\* is built and its save() awaited.
FindOneDone(q) ==
    /\ inflight[q].pc = "findOne"
    /\ inflight' =
         [inflight EXCEPT ![q].pc =
             IF inflight[q].deviceId \in DOMAIN devices
             THEN "save" ELSE "create"]
    /\ UNCHANGED <<now, roomVars, apiVars, clients>>

\* The save() of the new Device resolves, or rejects on the unique index of
\* device_id when the record exists by now: the catch block answers 500.
CreateDone(q) ==
    /\ inflight[q].pc = "create"
    /\ IF inflight[q].deviceId \in DOMAIN devices
       THEN /\ inflight' = [inflight EXCEPT ![q].pc = "done",
                                            ![q].status = 500]
            /\ UNCHANGED devices
       ELSE /\ devices' = MapSet(devices, inflight[q].deviceId,
                                 NewDevice(now))
            /\ inflight' = [inflight EXCEPT ![q].pc = "save"]
    /\ UNCHANGED <<now, roomVars, requestCounts, lastResponse, lastHit,
                   windowHits, limiterWindows, joinedOkAt, clients>>

\* The handler's req.device.save() resolves: the nickname is written and
\* the request is answered 200.
SaveDone(q) ==
    /\ inflight[q].pc = "save"
    /\ devices' = [devices EXCEPT
                      ![inflight[q].deviceId].nickname = inflight[q].nickname]
    /\ inflight' = [inflight EXCEPT ![q].pc = "done", ![q].status = 200]
    /\ UNCHANGED <<now, roomVars, requestCounts, lastResponse, lastHit,
                   windowHits, limiterWindows, joinedOkAt, clients>>

NextAsync ==
    \/ /\ Tick(PolicyInstants)
       /\ UNCHANGED asyncVars
    \/ \E q \in Requests, dev \in DeviceIds \cup {NoDevice},
          nn \in Nicknames : Arrive(q, dev, nn)
    \/ \E q \in Requests : FindOneDone(q)
    \/ \E q \in Requests : CreateDone(q)
    \/ \E q \in Requests : SaveDone(q)

SpecAsync == Init /\ [][NextAsync]_vars

\* ---- the browser client (App.jsx, QueueScreen.jsx, ChatScreen.jsx)
\* The `socket` prop ChatScreen receives: App renders ChatScreen with
\* matchId and onDisconnect only, so the prop is undefined.
ChatScreenSocketProp(client) == NoSocket

\* QueueScreen's effect: socketRef.current = io(SOCKET_URL).
QueueMount(c, s) ==
    /\ clients[c].screen = "queue"
    /\ clients[c].socketRef = NoSocket
    /\ Connect(s)
    /\ clients' = [clients EXCEPT ![c].socketRef = s,
                                  ![c].navigatingToChat = FALSE]
    /\ UNCHANGED inflight

\* What room-created / room-joined do in QueueScreen and App: the flag is
\* set, onMatchFound stores the match and shows the chat screen; the
\* effect's cleanup leaves the socket connected because of the flag.
ToChat(client) ==
    [client EXCEPT !.navigatingToChat = TRUE,
                   !.matchSocket = client.socketRef,
                   !.screen = "chat",
                   !.leftWith = NoSocket]

\* handleCreateRoom and the server's answer.
ClickCreate(c, roomName, nickname) ==
    /\ clients[c].screen = "queue"
    /\ clients[c].socketRef # NoSocket
    /\ CreateRoom(clients[c].socketRef, roomName, nickname)
    /\ clients' = [clients EXCEPT ![c] = ToChat(@)]
    /\ UNCHANGED inflight

\* handleJoinRoom on a listed room and the server's answer.
ClickJoin(c, roomId, nickname) ==
    /\ clients[c].screen = "queue"
    /\ clients[c].socketRef # NoSocket
    /\ roomId \in DOMAIN rooms
    /\ JoinRoom(clients[c].socketRef, roomId, nickname)
    /\ clients' = [clients EXCEPT ![c] = ToChat(@)]
    /\ UNCHANGED inflight

\* ChatScreen.handleDisconnect (LEAVE ROOM): leave-room is emitted on the
\* socket prop if there is one, then App.handleChatDisconnect shows the
\* queue screen again, a new QueueScreen with a new socketRef.
ClickLeaveRoom(c) ==
    /\ clients[c].screen = "chat"
    /\ IF ChatScreenSocketProp(clients[c]) # NoSocket
       THEN LeaveRoom(ChatScreenSocketProp(clients[c]))
       ELSE UNCHANGED <<now, roomVars, apiVars>>
    /\ clients' = [clients EXCEPT
                      ![c].screen = "queue",
                      ![c].socketRef = NoSocket,
                      ![c].navigatingToChat = FALSE,
                      ![c].leftWith = clients[c].matchSocket,
                      ![c].matchSocket = NoSocket]
    /\ UNCHANGED inflight

NextClient ==
    \/ /\ Tick(RoomInstants)
       /\ UNCHANGED asyncVars
    \/ \E c \in Clients, s \in Sockets : QueueMount(c, s)
    \/ \E c \in Clients, rn \in RoomNames, nn \in Nicknames :
            ClickCreate(c, rn, nn)
    \/ \E c \in Clients, r \in RoomIds, nn \in Nicknames :
            ClickJoin(c, r, nn)
    \/ \E c \in Clients : ClickLeaveRoom(c)

SpecClient == Init /\ [][NextClient]_vars

\* The whole system.
Next ==
    \/ NextRooms \/ NextNames \/ NextApi \/ NextLimiter \/ NextSweep
    \/ NextBookkeeping \/ NextPolicy \/ NextVerify \/ NextAsync
    \/ NextClient
Spec == Init /\ [][Next]_vars

\* ================================================================ claims
\* ---- overlapping requests (SpecAsync)

\* C21: every request that carried a device id ends with status 200 and
\* with the device's record in the collection, also when it overlapped
\* with another request for the same, previously unseen device id.
C21_OverlappingRequestsSucceed ==
    \A q \in Requests :
        ( inflight[q].pc = "done" /\ inflight[q].deviceId # NoDevice )
        => /\ inflight[q].status = 200
           /\ inflight[q].deviceId \in DOMAIN devices

\* ---- the browser client (SpecClient)

\* C29: once a user has left the chat screen with LEAVE ROOM, the
\* connection that created or joined the room is no longer a member of any
\* room on the server.
C29_LeaveRoomReachesServer ==
    \A c \in Clients :
        clients[c].leftWith # NoSocket
        => \A r \in DOMAIN rooms :
              clients[c].leftWith \notin DOMAIN rooms[r].users

\* ---- gender verification (SpecVerify)

\* C28: in POST /api/verify-gender the classifier's reply determines the
\* stored gender: the reply 'female' stores 'female', the reply 'male'
\* stores 'male', the reply 'unknown' is answered 422 and leaves the gender
\* as it was; the stored gender is always unset, 'male' or 'female'.
C28_ReplyDeterminesGender ==
    [][\A id \in PolicyIdents :
         LET stored == devices'[lastResponse'.deviceId].gender
             before == IF lastResponse'.deviceId \in DOMAIN devices
                       THEN devices[lastResponse'.deviceId].gender
                       ELSE ""
         IN
          /\ ( /\ VerifyGender(id[1], id[2], Reply(FemaleText))
               /\ lastResponse'.by = "handler" )
             => ( lastResponse'.status = 200 /\ stored = "female" )
          /\ ( /\ VerifyGender(id[1], id[2], Reply(MaleText))
               /\ lastResponse'.by = "handler" )
             => ( lastResponse'.status = 200 /\ stored = "male" )
          /\ ( /\ VerifyGender(id[1], id[2], Reply(UnknownText))
               /\ lastResponse'.by = "handler" )
             => ( lastResponse'.status = 422 /\ stored = before )
          /\ \A d \in DOMAIN devices' :
                devices'[d].gender \in {"", "male", "female"}
      ]_vars

\* ---- room registry (SpecRooms)

\* C1: the userCount reported for every room equals the number of live
\* connections currently joined to it (so it is never negative), and a
\* connection that has disconnected is counted in no room.
C1_UserCountIsLiveMembers ==
    \A r \in DOMAIN rooms :
        /\ UserCount(r) = Cardinality(LiveMembers(r))
        /\ UserCount(r) >= 0
        /\ \A s \in DOMAIN rooms[r].users : sockStatus[s] = "connected"

\* C2: whenever a room is deleted from the registry it has had zero members
\* continuously for at least the full grace period before the deletion,
\* whichever timer performs the deletion.
C2_DeletedOnlyAfterGrace ==
    [][\A r \in DOMAIN rooms :
          r \notin DOMAIN rooms' =>
              /\ DOMAIN rooms[r].users = {}
              /\ rooms[r].emptyAt # 0
              /\ now - rooms[r].emptyAt >= GracePeriodMs]_vars

\* C3: a room whose last member left (by leave-room or disconnect) and that
\* received no join-room since is no longer in the room list once the grace
\* period has elapsed and every timer due for it has fired.
C3_VacatedRoomRemoved ==
    \A r \in RoomIds :
        ( /\ vacatedAt[r] # 0
          /\ now >= vacatedAt[r] + GracePeriodMs
          /\ ~ \E tm \in timers : tm.roomId = r /\ tm.fireAt <= now )
        => r \notin { e.roomId : e \in getRoomList }

\* C4: a join-room that reaches an empty room before its grace period
\* elapses cancels the pending deletion, so the firing of the timer that was
\* scheduled before the join leaves the room in the registry; and a room
\* with at least one member is never deleted.
C4_JoinCancelsDeletion ==
    [][/\ \A tm \in timers :
            ( /\ tm \notin timers'
              /\ tm.roomId \in DOMAIN rooms
              /\ lastJoinAt[tm.roomId] > tm.fireAt - GracePeriodMs
              /\ lastJoinAt[tm.roomId] < tm.fireAt )
            => tm.roomId \in DOMAIN rooms'
       /\ \A r \in DOMAIN rooms :
            DOMAIN rooms[r].users # {} => r \in DOMAIN rooms']_vars

\* C11: a join-room whose roomId is not in the registry (never created, or
\* already deleted) emits exactly the error event 'Room not found' to the
\* caller and changes nothing: the registry with every room's member set
\* and empty marker, the pending timers, the caller's current room and the
\* latest broadcast list stay as they are.
C11_JoinUnknownRoomRefused ==
    [][\A s \in Sockets, r \in RoomIds, nn \in Nicknames :
          ( r \notin DOMAIN rooms /\ JoinRoom(s, r, nn) )
          => /\ emitted' = { Event("error", {s}, NoRoom, 0,
                                   "Room not found") }
             /\ rooms' = rooms
             /\ timers' = timers
             /\ socketRoomId' = socketRoomId
             /\ socketRooms' = socketRooms
             /\ roomsUpdated' = roomsUpdated]_vars

\* C11 witness: a join-room for a room that the timer had deleted was
\* answered with 'Room not found'.
C11_JoinDeletedRoomRefused ==
    /\ lastOp.op = "join-room"
    /\ lastOp.roomId \notin DOMAIN rooms
    /\ lastOp.roomId < nextRoomId
    /\ \E e \in emitted : e.name = "error" /\ e.message = "Room not found"

\* C12: a leave-room or disconnect of a connection that is not in a room
\* changes no room, schedules nothing and emits no event; and every
\* leave-room or disconnect leaves the connection in no room, so that a
\* second leave is such a no-op.
C12_LeaveIdempotent ==
    [][\A s \in Sockets :
          ( LeaveRoom(s) \/ Disconnect(s) )
          => /\ socketRoomId'[s] = NoRoom
             /\ socketRoomId[s] = NoRoom
                  => /\ rooms' = rooms
                     /\ timers' = timers
                     /\ roomsUpdated' = roomsUpdated
                     /\ emitted' = {}]_vars

\* C12 witness: a connection that had left its room sent leave-room again
\* while rooms exist, and nothing was emitted.
C12_SecondLeaveNoOp ==
    /\ lastOp.op = "leave-room"
    /\ lastOp.roomId = NoRoom
    /\ emitted = {}
    /\ rooms # << >>
    /\ timers # {}

\* C13: create-room adds exactly one room, under an id that was not in the
\* registry, whose member set is exactly the creating connection; the id is
\* returned to the creator in room-created; name, creator, creation time
\* and member set of every room that existed before are unchanged.
C13_CreateAddsOneRoom ==
    [][\A s \in Sockets, rn \in RoomNames, nn \in Nicknames :
          CreateRoom(s, rn, nn)
          => \E id \in (DOMAIN rooms') \ (DOMAIN rooms) :
                /\ DOMAIN rooms' = (DOMAIN rooms) \cup {id}
                /\ DOMAIN rooms'[id].users = {s}
                /\ Event("room-created", {s}, id, 0, "") \in emitted'
                /\ \A r \in DOMAIN rooms :
                      /\ rooms'[r].name = rooms[r].name
                      /\ rooms'[r].createdBy = rooms[r].createdBy
                      /\ rooms'[r].createdAt = rooms[r].createdAt
                      /\ rooms'[r].users = rooms[r].users]_vars

\* C13 witness: a room was created while another room existed.
C13_SecondRoomCreated ==
    /\ lastOp.op = "create-room"
    /\ Cardinality(DOMAIN rooms) = 2
    /\ DOMAIN rooms[lastOp.roomId].users = {lastOp.socket}
    /\ \E e \in emitted : e.name = "room-created" /\ e.roomId = lastOp.roomId

\* C14: after every handler and every timer callback the list of the latest
\* rooms-updated broadcast equals the registry's current room list.
C14_BroadcastIsCurrentList ==
    roomsUpdated = getRoomList

\* C14 witness: a timer callback deleted a room and broadcast the list.
C14_DeletionBroadcast ==
    /\ lastOp.op = "timer"
    /\ lastOp.roomId \notin DOMAIN rooms
    /\ \E e \in emitted : e.name = "rooms-updated"
    /\ rooms # << >>

\* C15: a user-joined or user-left notification goes only to members of the
\* affected room other than the acting connection, and carries the room's
\* member count after the operation.
C15_NotificationsToOtherMembers ==
    \A e \in emitted :
        e.name \in {"user-joined", "user-left"}
        => /\ lastOp.socket \notin e.to
           /\ e.to \subseteq DOMAIN rooms[e.roomId].users
           /\ e.userCount = UserCount(e.roomId)

\* C15 witness: a connection left a room and the remaining member was told.
C15_UserLeftDelivered ==
    \E e \in emitted :
        /\ e.name = "user-left"
        /\ e.to # {}
        /\ e.userCount = 1

\* C24: a join-room for a room of the registry adds the caller to the
\* room's members, clears the room's emptyAt marker, and sends the caller a
\* room-joined snapshot with the room's name and a users list that has one
\* nickname per member, the caller included, so that its length is the
\* room's userCount after the join.
C24_JoinSnapshot ==
    [][\A s \in Sockets, r \in RoomIds, nn \in Nicknames :
          ( r \in DOMAIN rooms /\ JoinRoom(s, r, nn) )
          => /\ s \in DOMAIN rooms'[r].users
             /\ rooms'[r].emptyAt = 0
             /\ \E e \in emitted' :
                   /\ e.name = "room-joined"
                   /\ e.to = {s}
                   /\ e.roomId = r
                   /\ e.roomName = rooms'[r].name
                   /\ Len(e.users) = Cardinality(DOMAIN rooms'[r].users)
                   /\ \E g \in getRoomList' :
                         g.roomId = r /\ g.userCount = Len(e.users)
                   /\ \A m \in DOMAIN rooms'[r].users :
                         \E i \in DOMAIN e.users :
                            e.users[i] = NickOrAnonymous(rooms'[r].users[m])
      ]_vars

\* C24 witness: a join-room into an occupied room returned a snapshot
\* listing two users.
C24_SnapshotOfTwo ==
    /\ lastOp.op = "join-room"
    /\ \E e \in emitted :
          /\ e.name = "room-joined"
          /\ Len(e.users) = 2
          /\ UserCount(e.roomId) = 2

\* C26: every connection is in the member set of at most one room, that
\* room is the connection's socket.roomId, and a connection whose
\* socket.roomId is unset is a member of no room.
C26_MemberOfCurrentRoomOnly ==
    \A s \in Sockets :
        LET memberOf == { r \in DOMAIN rooms : s \in DOMAIN rooms[r].users }
        IN  /\ Cardinality(memberOf) <= 1
            /\ memberOf # {} => memberOf = {socketRoomId[s]}
            /\ socketRoomId[s] = NoRoom => memberOf = {}

\* C27: a new-message is emitted into a room only for a send-message of a
\* connection that is a member of that room.
C27_MessagesFromMembersOnly ==
    \A e \in emitted :
        e.name = "new-message"
        => /\ lastOp.op = "send-message"
           /\ e.roomId = lastOp.roomId
           /\ e.roomId \in DOMAIN rooms
           /\ lastOp.socket \in DOMAIN rooms[e.roomId].users

\* C30: a room of the registry carries the emptyAt marker if and only if
\* its member set is empty, and every empty room has a deletion timer
\* pending.
C30_EmptyMarkerIffEmpty ==
    \A r \in DOMAIN rooms :
        /\ rooms[r].emptyAt # 0 <=> DOMAIN rooms[r].users = {}
        /\ DOMAIN rooms[r].users = {}
             => \E tm \in timers : tm.roomId = r

\* C30 witness: a room that was joined again after having been empty is
\* empty once more, marked and with two timers pending.
C30_EmptiedTwice ==
    \E r \in DOMAIN rooms :
        /\ DOMAIN rooms[r].users = {}
        /\ rooms[r].emptyAt # 0
        /\ lastJoinAt[r] # 0
        /\ Cardinality({ tm \in timers : tm.roomId = r }) = 2

\* ---- default room names (SpecNames)

\* C25: a create-room without a name stores a non-empty generated name,
\* whatever the registry holds at that time.
C25_DefaultNameNotEmpty ==
    [][\A s \in Sockets, nn \in Nicknames :
          CreateRoom(s, "", nn)
          => \E id \in (DOMAIN rooms') \ (DOMAIN rooms) :
                /\ rooms'[id].name # << >>
                /\ rooms'[id].name # <<"">>
                /\ rooms'[id].name =
                      <<"Room", Cardinality(DOMAIN rooms) + 1>>
      ]_vars

\* C25 witness: a room created without a name after the first room had
\* been deleted is named 'Room 1'.
C25_DefaultNameAfterDeletion ==
    /\ lastOp.op = "create-room"
    /\ lastOp.roomId = 2
    /\ DOMAIN rooms = {2}
    /\ rooms[2].name = <<"Room", 1>>

\* ---- rate limiters (SpecLimiter)

\* C5: the three limiter instances do not share counters: a hit counted by
\* one instance never changes the hit count or reset time that another
\* instance observes for the same key.
C5_LimitersIndependent ==
    [][\A l \in Limiters, k \in Keys :
          lastHit'.limiter # l =>
              StoreView(l, requestCounts', k) = StoreView(l, requestCounts, k)
      ]_vars

C10_RestartFromResetTime ==
    [][\A k \in DOMAIN requestCounts :
          requestCounts'[k] # requestCounts[k] =>
              IF now >= requestCounts[k].resetTime
              THEN requestCounts'[k] =
                      [count |-> 1, resetTime |-> now + WindowMs]
              ELSE requestCounts'[k] =
                      [count |-> requestCounts[k].count + 1,
                       resetTime |-> requestCounts[k].resetTime]]_vars

\* C10 amended: a hit at now > resetTime restarts the window with count 1
\* and resetTime = now + windowMs; a hit at now <= resetTime (now =
\* resetTime included) adds one to the count and keeps resetTime.
C10_RestartAfterResetTime ==
    [][\A k \in DOMAIN requestCounts :
          requestCounts'[k] # requestCounts[k] =>
              IF now > requestCounts[k].resetTime
              THEN requestCounts'[k] =
                      [count |-> 1, resetTime |-> now + WindowMs]
              ELSE requestCounts'[k] =
                      [count |-> requestCounts[k].count + 1,
                       resetTime |-> requestCounts[k].resetTime]]_vars

\* C10 witness: a hit arrived exactly at the reset time and was counted in
\* the running window.
C10_HitAtResetTimeCounted ==
    /\ lastHit.limiter # "none"
    /\ lastHit.resetTime = now
    /\ lastHit.totalHits > 1

\* ---- usage policy (SpecApi)

\* C6: a queue join that reaches the cooldown check less than 30 seconds
\* after the device's latest successful queue join is rejected by the
\* cooldown check with remaining_seconds > 0; one that arrives 30 seconds or
\* more after it passes the cooldown check.
C6_CooldownAfterSuccessfulJoin ==
    ( /\ lastResponse.route = "queue/join"
      /\ lastResponse.sinceJoin >= 0
      /\ lastResponse.by \notin {"apiRateLimiter", "validateDeviceId",
                                 "checkBanStatus", "checkDailyMatchLimit"} )
    => IF lastResponse.sinceJoin < 30 * 1000
       THEN /\ lastResponse.status = 429
            /\ lastResponse.by = "checkQueueCooldown"
            /\ lastResponse.remaining > 0
       ELSE lastResponse.by # "checkQueueCooldown"

\* C7: after a POST /api/matches with filter f has succeeded, the device's
\* persisted daily_matches[f] is one greater than its value before the
\* request (taken after the day-rollover reset).
C7_MatchCountCommitted ==
    ( /\ lastResponse.route = "matches"
      /\ lastResponse.status = 200 )
    => devices[lastResponse.device].daily_matches[lastResponse.filter]
          = lastResponse.countBefore + 1

\* C9: per device and minute the queue-join limiter lets the first three
\* queue joins that reach it through and rejects from the fourth on, and
\* the general API limiter lets the first ten requests through.
C9_QueueThreeApiTen ==
    LET key == keyGenerator(lastResponse.device)
    IN  /\ lastResponse.route # "none" =>
              ( lastResponse.by = "apiRateLimiter"
                  <=> limiterWindows[<<"api", key>>].n > 10 )
        /\ ( /\ lastResponse.route = "queue/join"
             /\ lastResponse.by \in {"queueRateLimiter", "handler"} )
           => ( lastResponse.by = "queueRateLimiter"
                  <=> limiterWindows[<<"queue", key>>].n > 3 )

\* ---- usage policy over stored documents (SpecPolicy)

\* C16: in the daily-limit check of a queue join, a device whose counter
\* for the requested filter male or female has reached 5 on the current day
\* is rejected with 429 by that check, and a request with filter 'any'
\* passes the check whatever the counters are.
C16_DailyLimitPerFilter ==
    [][( /\ requestCounts' # requestCounts
         /\ lastResponse'.route = "queue/join"
         /\ \E i \in DOMAIN lastResponse'.ran :
                lastResponse'.ran[i] = "checkDailyMatchLimit" )
       => LET id == lastResponse'.deviceId
              pre == IF id \in DOMAIN devices THEN devices[id]
                     ELSE NewDevice(now)
              f == lastResponse'.filter
          IN  DayOf(pre.last_reset) = DayOf(now)
              => /\ ( f \in {"male", "female"} /\ pre.daily_matches[f] >= 5 )
                      => /\ lastResponse'.status = 429
                         /\ lastResponse'.by = "checkDailyMatchLimit"
                 /\ f = "any"
                      => /\ lastResponse'.by # "checkDailyMatchLimit"
                         /\ \E i \in DOMAIN lastResponse'.ran :
                               lastResponse'.ran[i] = "checkQueueCooldown"
      ]_vars

\* C16 witness: a queue join with filter male of a device whose male
\* counter is 5 today was rejected by the daily-limit check.
C16_MaleLimitRejected ==
    /\ lastResponse.route = "queue/join"
    /\ lastResponse.filter = "male"
    /\ lastResponse.status = 429
    /\ lastResponse.by = "checkDailyMatchLimit"
    /\ lastResponse.doc.daily_matches.male = 5
    /\ DayOf(lastResponse.doc.last_reset) = DayOf(now)

\* C17: when the daily-limit check runs for a device whose last_reset is on
\* an earlier day than now, the three counters of the loaded document are 0
\* and its last_reset is now when the limit is evaluated, so the check does
\* not reject; when last_reset is on the current day the counters are
\* unchanged.
C17_DayRolloverResetsCounters ==
    [][( /\ requestCounts' # requestCounts
         /\ \E i \in DOMAIN lastResponse'.ran :
                lastResponse'.ran[i] = "checkDailyMatchLimit" )
       => LET id == lastResponse'.deviceId
              pre == IF id \in DOMAIN devices THEN devices[id]
                     ELSE NewDevice(now)
              post == lastResponse'.doc
          IN  IF DayOf(pre.last_reset) < DayOf(now)
              THEN /\ post.daily_matches =
                         [male |-> 0, female |-> 0, any |-> 0]
                   /\ post.last_reset = now
                   /\ lastResponse'.by # "checkDailyMatchLimit"
              ELSE post.daily_matches = pre.daily_matches
      ]_vars

\* C17 witness: the daily-limit check ran on a document stored with male = 5
\* and a last_reset of an earlier day, and the loaded document has zero
\* counters and last_reset = now.
C17_YesterdaysCountersReset ==
    /\ lastResponse.route = "queue/join"
    /\ \E i \in DOMAIN lastResponse.ran :
          lastResponse.ran[i] = "checkDailyMatchLimit"
    /\ lastResponse.deviceId \in DOMAIN devices
    /\ devices[lastResponse.deviceId].daily_matches.female = 6
    /\ DayOf(devices[lastResponse.deviceId].last_reset) < DayOf(now)
    /\ lastResponse.doc.daily_matches = [male |-> 0, female |-> 0, any |-> 0]
    /\ lastResponse.doc.last_reset = now

\* C18: when the ban check runs for a banned device whose ban has not
\* expired (no ban_until, or now not after ban_until) the request is
\* answered 403 by the ban check, no handler runs and no document changes;
\* when ban_until is in the past, is_banned, ban_reason and ban_until are
\* cleared in the stored document and the request goes on past the check.
C18_BanCheck ==
    [][( /\ requestCounts' # requestCounts
         /\ \E i \in DOMAIN lastResponse'.ran :
                lastResponse'.ran[i] = "checkBanStatus"
         /\ lastResponse'.deviceId \in DOMAIN devices
         /\ devices[lastResponse'.deviceId].is_banned )
       => LET id == lastResponse'.deviceId
              pre == devices[id]
              ran == lastResponse'.ran
          IN  IF pre.ban_until = 0 \/ now <= pre.ban_until
              THEN /\ lastResponse'.status = 403
                   /\ lastResponse'.by = "checkBanStatus"
                   /\ \A i \in DOMAIN ran : ran[i] \notin Handlers
                   /\ devices' = devices
              ELSE /\ devices'[id].is_banned = FALSE
                   /\ devices'[id].ban_reason = ""
                   /\ devices'[id].ban_until = 0
                   /\ lastResponse'.by # "checkBanStatus"
                   /\ ran[Len(ran)] # "checkBanStatus"
      ]_vars

\* C18 witness: a request of a device banned without expiry was answered
\* 403 by the ban check after the ban of another kind had time to expire.
C18_PermanentBanRejected ==
    /\ lastResponse.status = 403
    /\ lastResponse.by = "checkBanStatus"
    /\ devices[lastResponse.deviceId].is_banned
    /\ devices[lastResponse.deviceId].ban_until = 0
    /\ now > StartTime

\* C19: for POST /api/queue/join (once past the general API limiter) the
\* checks run in the order identifier presence, load-or-create, ban, daily
\* limit, cooldown; the first failing one answers and nothing of the chain
\* runs after it; no document is created or changed when the identifier is
\* missing; the handler runs only after all five checks have passed.
C19_QueueJoinChecksInOrder ==
    [][( /\ requestCounts' # requestCounts
         /\ lastResponse'.route = "queue/join"
         /\ lastResponse'.by # "apiRateLimiter" )
       => LET r == lastResponse'
              id == RequestDeviceId(r.device, r.alt)
              pre == IF id \in DOMAIN devices THEN devices[id]
                     ELSE NewDevice(now)
              missing == id = NoDevice
              banned == /\ pre.is_banned
                        /\ (pre.ban_until = 0 \/ now <= pre.ban_until)
              count == IF DayOf(pre.last_reset) = DayOf(now)
                       THEN pre.daily_matches[r.filter] ELSE 0
              limited == r.filter # "any" /\ count >= 5
              cooling == /\ pre.last_queue_join # 0
                         /\ now - pre.last_queue_join < 30 * 1000
              order == <<"apiRateLimiter", "validateDeviceId",
                         "getOrCreateDevice", "checkBanStatus",
                         "checkDailyMatchLimit", "checkQueueCooldown",
                         "queueRateLimiter", "queueJoinHandler">>
              checks == {"validateDeviceId", "getOrCreateDevice",
                         "checkBanStatus", "checkDailyMatchLimit",
                         "checkQueueCooldown"}
          IN  /\ Len(r.ran) <= Len(order)
              /\ \A i \in DOMAIN r.ran : r.ran[i] = order[i]
              /\ r.by = ( IF missing THEN "validateDeviceId"
                          ELSE IF banned THEN "checkBanStatus"
                          ELSE IF limited THEN "checkDailyMatchLimit"
                          ELSE IF cooling THEN "checkQueueCooldown"
                          ELSE IF r.status = 200 THEN "handler"
                          ELSE "queueRateLimiter" )
              /\ r.by \in checks => r.ran[Len(r.ran)] = r.by
              /\ missing => devices' = devices
              /\ (\E i \in DOMAIN r.ran : r.ran[i] = "queueJoinHandler")
                    => /\ ~ missing /\ ~ banned /\ ~ limited /\ ~ cooling
                       /\ r.status = 200
                       /\ checks \subseteq { r.ran[i] : i \in DOMAIN r.ran }
      ]_vars

\* C19 witness: a queue join of a device that is banned, at its daily limit
\* and inside its cooldown was answered by the ban check.
C19_BanAnswersFirst ==
    /\ lastResponse.route = "queue/join"
    /\ lastResponse.by = "checkBanStatus"
    /\ lastResponse.filter = "male"
    /\ lastResponse.doc.daily_matches.male = 5
    /\ DayOf(lastResponse.doc.last_reset) = DayOf(now)
    /\ lastResponse.doc.last_queue_join # 0
    /\ now - lastResponse.doc.last_queue_join < 30 * 1000

====
